---- MODULE Spec2Model ----
(***************************************************************************)
(* LegalEase RAG service (src/rag/rag_service.py): the keyword search over *)
(* the local corpus, the Indian Kanoon fetch with its POST/GET fallback    *)
(* and defensive parsing, and the /chat and /search handlers that merge    *)
(* the two sources.                                                        *)
(*                                                                         *)
(* Python strings that the code inspects character by character (queries, *)
(* case texts, identifiers, URLs) are sequences of one-character strings;  *)
(* strings the code only copies are TLA+ strings.                          *)
(***************************************************************************)
EXTENDS Integers, Sequences, FiniteSets, TLC

VARIABLES
  INDIAN_KANOON_API_KEY, \* TRUE iff the credential is configured (line 23)
  model,                 \* TRUE iff the Gemini client was built (lines 26-32)
  pc,                    \* position of the request being handled
  endpoint,              \* "none", "chat" or "search"
  message,               \* the raw text of the request (message / q)
  query,                 \* the query the handler works with
  limit,                 \* the limit handed to get_indian_kanoon_cases
  top_k,                 \* the top_k handed to simple_text_search by the handler
  sent,                  \* outbound requests of the current fetch, in order
  lastResp,              \* `response` of get_indian_kanoon_cases: the latest answer
  ikCases,               \* what get_indian_kanoon_cases returned
  raised,                \* exception that left get_indian_kanoon_cases
  remoteCalls,           \* calls of get_indian_kanoon_cases in this request
  localCalls,            \* calls of simple_text_search in this request
  genCalls,              \* calls of model.generate_content in this request
  genOutcome,            \* what that call did: "not_called", "text" or "fault"
  response,              \* what the handler returned
  s_query, s_cases, s_top_k, s_result, s_pc  \* a direct call of simple_text_search

vars == << INDIAN_KANOON_API_KEY, model, pc, endpoint, message, query, limit, top_k,
           sent, lastResp, ikCases, raised, remoteCalls, localCalls, genCalls,
           genOutcome, response, s_query, s_cases, s_top_k, s_result, s_pc >>

svcVars == << INDIAN_KANOON_API_KEY, model, pc, endpoint, message, query, limit, top_k,
              sent, lastResp, ikCases, raised, remoteCalls, localCalls, genCalls,
              genOutcome, response >>

callVars == << s_query, s_cases, s_top_k, s_result, s_pc >>

-----------------------------------------------------------------------------
(* Bounds of the model *)

MaxQueryLen == 3   \* longest query of a direct simple_text_search call
MaxCorpus == 3     \* most cases in the corpus of a direct call
MaxTopK == 2       \* largest top_k of a direct call
MaxLimit == 2      \* largest limit a /search request carries
MaxDocs == 2       \* most records in one list of a remote body
MaxFields == 2     \* most fields in a remote body that is an object

-----------------------------------------------------------------------------
(* Python string primitives *)

Whitespace == {" ", "\t", "\n"}

UpperToLower ==
  [c \in {"A", "B", "C", "D", "E", "F", "G", "H", "I", "J", "K", "L", "M", "N", "O",
          "P", "Q", "R", "S", "T", "U", "V", "W", "X", "Y", "Z"} |->
     CASE c = "A" -> "a" [] c = "B" -> "b" [] c = "C" -> "c" [] c = "D" -> "d"
       [] c = "E" -> "e" [] c = "F" -> "f" [] c = "G" -> "g" [] c = "H" -> "h"
       [] c = "I" -> "i" [] c = "J" -> "j" [] c = "K" -> "k" [] c = "L" -> "l"
       [] c = "M" -> "m" [] c = "N" -> "n" [] c = "O" -> "o" [] c = "P" -> "p"
       [] c = "Q" -> "q" [] c = "R" -> "r" [] c = "S" -> "s" [] c = "T" -> "t"
       [] c = "U" -> "u" [] c = "V" -> "v" [] c = "W" -> "w" [] c = "X" -> "x"
       [] c = "Y" -> "y" [] c = "Z" -> "z"]

\* str.lower()
Lower(s) ==
  [i \in 1..Len(s) |-> IF s[i] \in DOMAIN UpperToLower THEN UpperToLower[s[i]] ELSE s[i]]

\* needle in hay (str.__contains__): the empty needle is in every string
Contains(hay, needle) ==
  \E i \in 0..(Len(hay) - Len(needle)) :
     \A j \in 1..Len(needle) : hay[i + j] = needle[j]

\* str.split() with no separator, as the set the code makes of it: the
\* maximal runs of non-whitespace characters
RECURSIVE SplitFrom(_, _, _)
SplitFrom(s, i, cur) ==
  IF i > Len(s)
    THEN (IF cur = << >> THEN {} ELSE {cur})
    ELSE IF s[i] \in Whitespace
      THEN (IF cur = << >> THEN {} ELSE {cur}) \cup SplitFrom(s, i + 1, << >>)
      ELSE SplitFrom(s, i + 1, Append(cur, s[i]))

Split(s) == SplitFrom(s, 1, << >>)

\* str.strip()
RECURSIVE LStrip(_)
LStrip(s) == IF s # << >> /\ Head(s) \in Whitespace THEN LStrip(Tail(s)) ELSE s

RECURSIVE RStrip(_)
RStrip(s) ==
  IF s # << >> /\ s[Len(s)] \in Whitespace THEN RStrip(SubSeq(s, 1, Len(s) - 1)) ELSE s

\* the message taken as it came
Strip_Nothing(s) == s

Strip(s) == RStrip(LStrip(s))

\* seq[:n], for n of either sign
PySlice(seq, n) ==
  IF n >= 0
    THEN SubSeq(seq, 1, IF n < Len(seq) THEN n ELSE Len(seq))
    ELSE SubSeq(seq, 1, IF Len(seq) + n > 0 THEN Len(seq) + n ELSE 0)

PyMin(a, b) == IF a <= b THEN a ELSE b

-----------------------------------------------------------------------------
(* The local corpus *)

\* SAMPLE_LEGAL_CASES[0]: "State of Maharashtra vs. Ram Kumar"
SampleCase1 ==
  [ case_title |->
     << "S", "t", "a", "t", "e", " ", "o", "f", " ", "M", "a", "h", "a", "r", "a", "s", "h",
        "t", "r", "a", " ", "v", "s", ".", " ", "R", "a", "m", " ", "K", "u", "m", "a", "r" >>,
    facts |->
     << "P", "r", "o", "p", "e", "r", "t", "y", " ", "d", "i", "s", "p", "u", "t", "e", " ",
        "i", "n", "v", "o", "l", "v", "i", "n", "g", " ", "a", "g", "r", "i", "c", "u", "l",
        "t", "u", "r", "a", "l", " ", "l", "a", "n", "d", " ", "o", "w", "n", "e", "r", "s",
        "h", "i", "p", " ", "r", "i", "g", "h", "t", "s", " ", "b", "e", "t", "w", "e", "e",
        "n", " ", "t", "w", "o", " ", "p", "a", "r", "t", "i", "e", "s", ".", " ", "T", "h",
        "e", " ", "d", "i", "s", "p", "u", "t", "e", " ", "a", "r", "o", "s", "e", " ", "w",
        "h", "e", "n", " ", "d", "e", "f", "e", "n", "d", "a", "n", "t", " ", "c", "l", "a",
        "i", "m", "e", "d", " ", "o", "w", "n", "e", "r", "s", "h", "i", "p", " ", "o", "f",
        " ", "5", " ", "a", "c", "r", "e", "s", " ", "o", "f", " ", "a", "g", "r", "i", "c",
        "u", "l", "t", "u", "r", "a", "l", " ", "l", "a", "n", "d", "." >>,
    judgment |->
     << "C", "o", "u", "r", "t", " ", "r", "u", "l", "e", "d", " ", "i", "n", " ", "f", "a",
        "v", "o", "r", " ", "o", "f", " ", "p", "l", "a", "i", "n", "t", "i", "f", "f", " ",
        "b", "a", "s", "e", "d", " ", "o", "n", " ", "r", "e", "g", "i", "s", "t", "e", "r",
        "e", "d", " ", "s", "a", "l", "e", " ", "d", "e", "e", "d", " ", "a", "n", "d", " ",
        "p", "r", "o", "p", "e", "r", "t", "y", " ", "d", "o", "c", "u", "m", "e", "n", "t",
        "s", ".", " ", "D", "e", "f", "e", "n", "d", "a", "n", "t", " ", "f", "a", "i", "l",
        "e", "d", " ", "t", "o", " ", "p", "r", "o", "v", "i", "d", "e", " ", "s", "u", "f",
        "f", "i", "c", "i", "e", "n", "t", " ", "e", "v", "i", "d", "e", "n", "c", "e", " ",
        "o", "f", " ", "o", "w", "n", "e", "r", "s", "h", "i", "p", "." >>,
    legal_issues |->
     << "P", "r", "o", "p", "e", "r", "t", "y", " ", "r", "i", "g", "h", "t", "s", ",", " ",
        "l", "a", "n", "d", " ", "o", "w", "n", "e", "r", "s", "h", "i", "p", " ", "v", "e",
        "r", "i", "f", "i", "c", "a", "t", "i", "o", "n", ",", " ", "d", "o", "c", "u", "m",
        "e", "n", "t", "a", "r", "y", " ", "e", "v", "i", "d", "e", "n", "c", "e" >>,
    court |-> "Bombay High Court", year |-> "2023", citation |-> "2023 BHC 456" ]

\* SAMPLE_LEGAL_CASES[1]: "ABC Corporation vs. XYZ Limited"
SampleCase2 ==
  [ case_title |->
     << "A", "B", "C", " ", "C", "o", "r", "p", "o", "r", "a", "t", "i", "o", "n", " ", "v",
        "s", ".", " ", "X", "Y", "Z", " ", "L", "i", "m", "i", "t", "e", "d" >>,
    facts |->
     << "B", "r", "e", "a", "c", "h", " ", "o", "f", " ", "s", "u", "p", "p", "l", "y", " ",
        "c", "o", "n", "t", "r", "a", "c", "t", " ", "w", "h", "e", "r", "e", " ", "d", "e",
        "f", "e", "n", "d", "a", "n", "t", " ", "f", "a", "i", "l", "e", "d", " ", "t", "o",
        " ", "d", "e", "l", "i", "v", "e", "r", " ", "g", "o", "o", "d", "s", " ", "a", "s",
        " ", "p", "e", "r", " ", "a", "g", "r", "e", "e", "d", " ", "t", "i", "m", "e", "l",
        "i", "n", "e", ".", " ", "C", "o", "n", "t", "r", "a", "c", "t", " ", "w", "o", "r",
        "t", "h", " ", "R", "s", ".", " ", "5", "0", " ", "l", "a", "k", "h", "s", " ", "w",
        "a", "s", " ", "v", "i", "o", "l", "a", "t", "e", "d", "." >>,
    judgment |->
     << "C", "o", "u", "r", "t", " ", "a", "w", "a", "r", "d", "e", "d", " ", "c", "o", "m",
        "p", "e", "n", "s", "a", "t", "i", "o", "n", " ", "o", "f", " ", "R", "s", ".", " ",
        "1", "5", " ", "l", "a", "k", "h", "s", " ", "f", "o", "r", " ", "b", "r", "e", "a",
        "c", "h", " ", "o", "f", " ", "c", "o", "n", "t", "r", "a", "c", "t", " ", "a", "n",
        "d", " ", "a", "d", "d", "i", "t", "i", "o", "n", "a", "l", " ", "d", "a", "m", "a",
        "g", "e", "s", " ", "f", "o", "r", " ", "d", "e", "l", "a", "y", "e", "d", " ", "d",
        "e", "l", "i", "v", "e", "r", "y", "." >>,
    legal_issues |->
     << "C", "o", "n", "t", "r", "a", "c", "t", " ", "l", "a", "w", ",", " ", "b", "r", "e",
        "a", "c", "h", " ", "o", "f", " ", "c", "o", "n", "t", "r", "a", "c", "t", ",", " ",
        "d", "a", "m", "a", "g", "e", "s", ",", " ", "s", "p", "e", "c", "i", "f", "i", "c",
        " ", "p", "e", "r", "f", "o", "r", "m", "a", "n", "c", "e" >>,
    court |-> "Delhi High Court", year |-> "2023", citation |-> "2023 DHC 789" ]

\* SAMPLE_LEGAL_CASES[2]: "Priya Sharma vs. Tech Solutions Pvt Ltd"
SampleCase3 ==
  [ case_title |->
     << "P", "r", "i", "y", "a", " ", "S", "h", "a", "r", "m", "a", " ", "v", "s", ".", " ",
        "T", "e", "c", "h", " ", "S", "o", "l", "u", "t", "i", "o", "n", "s", " ", "P", "v",
        "t", " ", "L", "t", "d" >>,
    facts |->
     << "W", "r", "o", "n", "g", "f", "u", "l", " ", "t", "e", "r", "m", "i", "n", "a", "t",
        "i", "o", "n", " ", "c", "a", "s", "e", " ", "w", "h", "e", "r", "e", " ", "e", "m",
        "p", "l", "o", "y", "e", "e", " ", "w", "a", "s", " ", "d", "i", "s", "m", "i", "s",
        "s", "e", "d", " ", "w", "i", "t", "h", "o", "u", "t", " ", "p", "r", "o", "p", "e",
        "r", " ", "n", "o", "t", "i", "c", "e", " ", "o", "r", " ", "c", "a", "u", "s", "e",
        " ", "a", "f", "t", "e", "r", " ", "3", " ", "y", "e", "a", "r", "s", " ", "o", "f",
        " ", "s", "e", "r", "v", "i", "c", "e", "." >>,
    judgment |->
     << "E", "m", "p", "l", "o", "y", "e", "e", " ", "a", "w", "a", "r", "d", "e", "d", " ",
        "r", "e", "i", "n", "s", "t", "a", "t", "e", "m", "e", "n", "t", " ", "w", "i", "t",
        "h", " ", "8", "0", "%", " ", "b", "a", "c", "k", " ", "w", "a", "g", "e", "s", ".",
        " ", "C", "o", "m", "p", "a", "n", "y", " ", "d", "i", "r", "e", "c", "t", "e", "d",
        " ", "t", "o", " ", "f", "o", "l", "l", "o", "w", " ", "p", "r", "o", "p", "e", "r",
        " ", "t", "e", "r", "m", "i", "n", "a", "t", "i", "o", "n", " ", "p", "r", "o", "c",
        "e", "d", "u", "r", "e", "s", "." >>,
    legal_issues |->
     << "E", "m", "p", "l", "o", "y", "m", "e", "n", "t", " ", "l", "a", "w", ",", " ", "w",
        "r", "o", "n", "g", "f", "u", "l", " ", "t", "e", "r", "m", "i", "n", "a", "t", "i",
        "o", "n", ",", " ", "i", "n", "d", "u", "s", "t", "r", "i", "a", "l", " ", "d", "i",
        "s", "p", "u", "t", "e", "s", ",", " ", "b", "a", "c", "k", " ", "w", "a", "g", "e",
        "s" >>,
    court |-> "Karnataka High Court", year |-> "2023", citation |-> "2023 KHC 234" ]

\* SAMPLE_LEGAL_CASES[3]: "Union Bank vs. Rajesh Enterprises"
SampleCase4 ==
  [ case_title |->
     << "U", "n", "i", "o", "n", " ", "B", "a", "n", "k", " ", "v", "s", ".", " ", "R", "a",
        "j", "e", "s", "h", " ", "E", "n", "t", "e", "r", "p", "r", "i", "s", "e", "s" >>,
    facts |->
     << "R", "e", "c", "o", "v", "e", "r", "y", " ", "s", "u", "i", "t", " ", "f", "o", "r",
        " ", "n", "o", "n", "-", "p", "a", "y", "m", "e", "n", "t", " ", "o", "f", " ", "l",
        "o", "a", "n", " ", "a", "m", "o", "u", "n", "t", " ", "o", "f", " ", "R", "s", ".",
        " ", "2", "5", " ", "l", "a", "k", "h", "s", " ", "w", "i", "t", "h", " ", "i", "n",
        "t", "e", "r", "e", "s", "t", ".", " ", "B", "o", "r", "r", "o", "w", "e", "r", " ",
        "d", "e", "f", "a", "u", "l", "t", "e", "d", " ", "o", "n", " ", "E", "M", "I", " ",
        "p", "a", "y", "m", "e", "n", "t", "s", "." >>,
    judgment |->
     << "C", "o", "u", "r", "t", " ", "d", "i", "r", "e", "c", "t", "e", "d", " ", "i", "m",
        "m", "e", "d", "i", "a", "t", "e", " ", "r", "e", "c", "o", "v", "e", "r", "y", " ",
        "o", "f", " ", "p", "r", "i", "n", "c", "i", "p", "a", "l", " ", "a", "m", "o", "u",
        "n", "t", " ", "w", "i", "t", "h", " ", "1", "2", "%", " ", "i", "n", "t", "e", "r",
        "e", "s", "t", ".", " ", "A", "s", "s", "e", "t", " ", "a", "t", "t", "a", "c", "h",
        "m", "e", "n", "t", " ", "o", "r", "d", "e", "r", "e", "d", "." >>,
    legal_issues |->
     << "B", "a", "n", "k", "i", "n", "g", " ", "l", "a", "w", ",", " ", "l", "o", "a", "n",
        " ", "r", "e", "c", "o", "v", "e", "r", "y", ",", " ", "i", "n", "t", "e", "r", "e",
        "s", "t", " ", "c", "a", "l", "c", "u", "l", "a", "t", "i", "o", "n", ",", " ", "a",
        "s", "s", "e", "t", " ", "a", "t", "t", "a", "c", "h", "m", "e", "n", "t" >>,
    court |-> "Punjab & Haryana High Court", year |-> "2023", citation |-> "2023 PHC 567" ]

\* SAMPLE_LEGAL_CASES[4]: "Municipal Corporation vs. Green Builders"
SampleCase5 ==
  [ case_title |->
     << "M", "u", "n", "i", "c", "i", "p", "a", "l", " ", "C", "o", "r", "p", "o", "r", "a",
        "t", "i", "o", "n", " ", "v", "s", ".", " ", "G", "r", "e", "e", "n", " ", "B", "u",
        "i", "l", "d", "e", "r", "s" >>,
    facts |->
     << "U", "n", "a", "u", "t", "h", "o", "r", "i", "z", "e", "d", " ", "c", "o", "n", "s",
        "t", "r", "u", "c", "t", "i", "o", "n", " ", "c", "a", "s", "e", " ", "w", "h", "e",
        "r", "e", " ", "b", "u", "i", "l", "d", "e", "r", " ", "c", "o", "n", "s", "t", "r",
        "u", "c", "t", "e", "d", " ", "a", "d", "d", "i", "t", "i", "o", "n", "a", "l", " ",
        "f", "l", "o", "o", "r", "s", " ", "w", "i", "t", "h", "o", "u", "t", " ", "p", "r",
        "o", "p", "e", "r", " ", "p", "e", "r", "m", "i", "s", "s", "i", "o", "n", "s", "." >>,
    judgment |->
     << "D", "e", "m", "o", "l", "i", "t", "i", "o", "n", " ", "o", "r", "d", "e", "r", "e",
        "d", " ", "f", "o", "r", " ", "u", "n", "a", "u", "t", "h", "o", "r", "i", "z", "e",
        "d", " ", "p", "o", "r", "t", "i", "o", "n", ".", " ", "B", "u", "i", "l", "d", "e",
        "r", " ", "f", "i", "n", "e", "d", " ", "R", "s", ".", " ", "1", "0", " ", "l", "a",
        "k", "h", "s", " ", "f", "o", "r", " ", "v", "i", "o", "l", "a", "t", "i", "o", "n",
        " ", "o", "f", " ", "b", "u", "i", "l", "d", "i", "n", "g", " ", "n", "o", "r", "m",
        "s", "." >>,
    legal_issues |->
     << "M", "u", "n", "i", "c", "i", "p", "a", "l", " ", "l", "a", "w", ",", " ", "b", "u",
        "i", "l", "d", "i", "n", "g", " ", "r", "e", "g", "u", "l", "a", "t", "i", "o", "n",
        "s", ",", " ", "u", "n", "a", "u", "t", "h", "o", "r", "i", "z", "e", "d", " ", "c",
        "o", "n", "s", "t", "r", "u", "c", "t", "i", "o", "n", ",", " ", "p", "e", "n", "a",
        "l", "t", "i", "e", "s" >>,
    court |-> "Gujarat High Court", year |-> "2023", citation |-> "2023 GHC 345" ]

\* SAMPLE_LEGAL_CASES[5]: "Sunita Devi vs. State of UP"
SampleCase6 ==
  [ case_title |->
     << "S", "u", "n", "i", "t", "a", " ", "D", "e", "v", "i", " ", "v", "s", ".", " ", "S",
        "t", "a", "t", "e", " ", "o", "f", " ", "U", "P" >>,
    facts |->
     << "C", "o", "n", "s", "u", "m", "e", "r", " ", "p", "r", "o", "t", "e", "c", "t", "i",
        "o", "n", " ", "c", "a", "s", "e", " ", "a", "g", "a", "i", "n", "s", "t", " ", "d",
        "e", "f", "e", "c", "t", "i", "v", "e", " ", "e", "l", "e", "c", "t", "r", "o", "n",
        "i", "c", " ", "g", "o", "o", "d", "s", " ", "s", "o", "l", "d", " ", "w", "i", "t",
        "h", "o", "u", "t", " ", "p", "r", "o", "p", "e", "r", " ", "w", "a", "r", "r", "a",
        "n", "t", "y", " ", "c", "o", "v", "e", "r", "a", "g", "e", "." >>,
    judgment |->
     << "C", "o", "n", "s", "u", "m", "e", "r", " ", "f", "o", "r", "u", "m", " ", "a", "w",
        "a", "r", "d", "e", "d", " ", "r", "e", "p", "l", "a", "c", "e", "m", "e", "n", "t",
        " ", "o", "f", " ", "p", "r", "o", "d", "u", "c", "t", " ", "p", "l", "u", "s", " ",
        "R", "s", ".", " ", "5", "0", "0", "0", " ", "c", "o", "m", "p", "e", "n", "s", "a",
        "t", "i", "o", "n", " ", "f", "o", "r", " ", "m", "e", "n", "t", "a", "l", " ", "a",
        "g", "o", "n", "y", "." >>,
    legal_issues |->
     << "C", "o", "n", "s", "u", "m", "e", "r", " ", "p", "r", "o", "t", "e", "c", "t", "i",
        "o", "n", ",", " ", "d", "e", "f", "e", "c", "t", "i", "v", "e", " ", "g", "o", "o",
        "d", "s", ",", " ", "w", "a", "r", "r", "a", "n", "t", "y", " ", "c", "l", "a", "i",
        "m", "s", ",", " ", "c", "o", "m", "p", "e", "n", "s", "a", "t", "i", "o", "n" >>,
    court |-> "Allahabad High Court", year |-> "2023", citation |-> "2023 AHC 678" ]

\* SAMPLE_LEGAL_CASES[6]: "Highway Construction Co. vs. State Government"
SampleCase7 ==
  [ case_title |->
     << "H", "i", "g", "h", "w", "a", "y", " ", "C", "o", "n", "s", "t", "r", "u", "c", "t",
        "i", "o", "n", " ", "C", "o", ".", " ", "v", "s", ".", " ", "S", "t", "a", "t", "e",
        " ", "G", "o", "v", "e", "r", "n", "m", "e", "n", "t" >>,
    facts |->
     << "D", "i", "s", "p", "u", "t", "e", " ", "o", "v", "e", "r", " ", "d", "e", "l", "a",
        "y", "e", "d", " ", "p", "a", "y", "m", "e", "n", "t", " ", "f", "o", "r", " ", "g",
        "o", "v", "e", "r", "n", "m", "e", "n", "t", " ", "r", "o", "a", "d", " ", "c", "o",
        "n", "s", "t", "r", "u", "c", "t", "i", "o", "n", " ", "p", "r", "o", "j", "e", "c",
        "t", " ", "w", "o", "r", "t", "h", " ", "R", "s", ".", " ", "2", " ", "c", "r", "o",
        "r", "e", "s", "." >>,
    judgment |->
     << "G", "o", "v", "e", "r", "n", "m", "e", "n", "t", " ", "d", "i", "r", "e", "c", "t",
        "e", "d", " ", "t", "o", " ", "r", "e", "l", "e", "a", "s", "e", " ", "p", "e", "n",
        "d", "i", "n", "g", " ", "p", "a", "y", "m", "e", "n", "t", " ", "w", "i", "t", "h",
        " ", "8", "%", " ", "i", "n", "t", "e", "r", "e", "s", "t", " ", "w", "i", "t", "h",
        "i", "n", " ", "6", "0", " ", "d", "a", "y", "s", "." >>,
    legal_issues |->
     << "G", "o", "v", "e", "r", "n", "m", "e", "n", "t", " ", "c", "o", "n", "t", "r", "a",
        "c", "t", "s", ",", " ", "d", "e", "l", "a", "y", "e", "d", " ", "p", "a", "y", "m",
        "e", "n", "t", "s", ",", " ", "p", "u", "b", "l", "i", "c", " ", "w", "o", "r", "k",
        "s", ",", " ", "i", "n", "t", "e", "r", "e", "s", "t", " ", "o", "n", " ", "d", "u",
        "e", "s" >>,
    court |-> "Rajasthan High Court", year |-> "2023", citation |-> "2023 RHC 890" ]

\* SAMPLE_LEGAL_CASES[7]: "Dr. Amit vs. Medical Council"
SampleCase8 ==
  [ case_title |->
     << "D", "r", ".", " ", "A", "m", "i", "t", " ", "v", "s", ".", " ", "M", "e", "d", "i",
        "c", "a", "l", " ", "C", "o", "u", "n", "c", "i", "l" >>,
    facts |->
     << "P", "r", "o", "f", "e", "s", "s", "i", "o", "n", "a", "l", " ", "m", "i", "s", "c",
        "o", "n", "d", "u", "c", "t", " ", "c", "a", "s", "e", " ", "a", "g", "a", "i", "n",
        "s", "t", " ", "d", "o", "c", "t", "o", "r", " ", "f", "o", "r", " ", "a", "l", "l",
        "e", "g", "e", "d", " ", "n", "e", "g", "l", "i", "g", "e", "n", "c", "e", " ", "i",
        "n", " ", "p", "a", "t", "i", "e", "n", "t", " ", "t", "r", "e", "a", "t", "m", "e",
        "n", "t", "." >>,
    judgment |->
     << "D", "o", "c", "t", "o", "r", " ", "s", "u", "s", "p", "e", "n", "d", "e", "d", " ",
        "f", "o", "r", " ", "6", " ", "m", "o", "n", "t", "h", "s", ".", " ", "D", "i", "r",
        "e", "c", "t", "e", "d", " ", "t", "o", " ", "u", "n", "d", "e", "r", "g", "o", " ",
        "r", "e", "f", "r", "e", "s", "h", "e", "r", " ", "t", "r", "a", "i", "n", "i", "n",
        "g", " ", "b", "e", "f", "o", "r", "e", " ", "r", "e", "s", "u", "m", "i", "n", "g",
        " ", "p", "r", "a", "c", "t", "i", "c", "e", "." >>,
    legal_issues |->
     << "M", "e", "d", "i", "c", "a", "l", " ", "n", "e", "g", "l", "i", "g", "e", "n", "c",
        "e", ",", " ", "p", "r", "o", "f", "e", "s", "s", "i", "o", "n", "a", "l", " ", "c",
        "o", "n", "d", "u", "c", "t", ",", " ", "m", "e", "d", "i", "c", "a", "l", " ", "c",
        "o", "u", "n", "c", "i", "l", " ", "r", "e", "g", "u", "l", "a", "t", "i", "o", "n",
        "s" >>,
    court |-> "Supreme Court of India", year |-> "2023", citation |-> "2023 SC 123" ]

SAMPLE_LEGAL_CASES ==
  << SampleCase1, SampleCase2, SampleCase3, SampleCase4,
     SampleCase5, SampleCase6, SampleCase7, SampleCase8 >>

-----------------------------------------------------------------------------
(* simple_text_search *)

ExactPhraseBoost == 2

\* the f-string of line 126, lower-cased
searchable_text(case) ==
  Lower(case.facts \o << " " >> \o case.judgment \o << " " >> \o case.legal_issues
        \o << " " >> \o case.case_title)

\* lines 121, 129-133: one point per distinct query word found, plus the boost
\* when the whole lower-cased query is found
matches(query_, case) ==
  LET text == searchable_text(case)
      query_words == Split(Lower(query_))
  IN  Cardinality({word \in query_words : Contains(text, word)})
        + (IF Contains(text, Lower(query_)) THEN ExactPhraseBoost ELSE 0)

\* lines 124-136: the (case, matches) pairs with matches > 0, in corpus order
RECURSIVE scored_cases(_, _)
scored_cases(query_, cases) ==
  IF cases = << >> THEN << >>
  ELSE LET rest == scored_cases(query_, SubSeq(cases, 1, Len(cases) - 1))
           case == cases[Len(cases)]
           m == matches(query_, case)
       IN  IF m > 0 THEN Append(rest, [case |-> case, score |-> m]) ELSE rest

\* an ascending sort read backwards: x goes before the pairs of its own score
InsertByScore_Unstable(sorted, x) ==
  LET n == Cardinality({i \in 1..Len(sorted) : sorted[i].score > x.score})
  IN  SubSeq(sorted, 1, n) \o << x >> \o SubSeq(sorted, n + 1, Len(sorted))

\* list.sort(key=score, reverse=True): x goes behind every pair whose score is
\* at least its own (the sort is stable, also when reversed)
InsertByScore(sorted, x) ==
  LET n == Cardinality({i \in 1..Len(sorted) : sorted[i].score >= x.score})
  IN  SubSeq(sorted, 1, n) \o << x >> \o SubSeq(sorted, n + 1, Len(sorted))

RECURSIVE SortByScore(_)
SortByScore(s) ==
  IF s = << >> THEN << >>
  ELSE InsertByScore(SortByScore(SubSeq(s, 1, Len(s) - 1)), s[Len(s)])

simple_text_search(query_, cases, k) ==
  LET ranked == PySlice(SortByScore(scored_cases(query_, cases)), k)
  IN  [i \in 1..Len(ranked) |-> ranked[i].case]

-----------------------------------------------------------------------------
(* JSON values of a remote body, and the Python operations the fetch applies *)

JNull == [t |-> "null"]
JStr(s) == [t |-> "str", v |-> s]
JInt(n) == [t |-> "int", v |-> n]
JList(items) == [t |-> "list", v |-> items]
\* a top-level object: its fields in iteration order, each [k |-> key, v |-> value]
JDict(pairs) == [t |-> "dict", v |-> pairs]
\* a document record: an object over the keys the code reads; Absent marks a
\* key the object does not have
Absent == [t |-> "absent"]
JDoc(fields) == [t |-> "doc", f |-> fields]
\* a body response.json() cannot decode
NotJson == [t |-> "notjson"]

\* bool(v)
Truthy(v) ==
  CASE v.t = "null" -> FALSE
    [] v.t = "str" -> v.v # << >>
    [] v.t = "int" -> v.v # 0
    [] v.t = "list" -> v.v # << >>
    [] v.t = "dict" -> v.v # << >>

\* a or b
PyOr(a, b) == IF Truthy(a) THEN a ELSE b

\* doc.get(key, default)
Get(doc, key, default) == IF doc.f[key] = Absent THEN default ELSE doc.f[key]

Digit(d) ==
  CASE d = 0 -> "0" [] d = 1 -> "1" [] d = 2 -> "2" [] d = 3 -> "3" [] d = 4 -> "4"
    [] d = 5 -> "5" [] d = 6 -> "6" [] d = 7 -> "7" [] d = 8 -> "8" [] d = 9 -> "9"

RECURSIVE NatToStr(_)
NatToStr(n) == IF n < 10 THEN << Digit(n) >> ELSE Append(NatToStr(n \div 10), Digit(n % 10))

\* the text an f-string gives a scalar
PyStr(v) ==
  CASE v.t = "str" -> v.v
    [] v.t = "int" -> IF v.v < 0 THEN << "-" >> \o NatToStr(-v.v) ELSE NatToStr(v.v)
    [] v.t = "null" -> << "N", "o", "n", "e" >>

-----------------------------------------------------------------------------
(* get_indian_kanoon_cases: parsing of a 200 response, lines 187-250 *)

EmptyStr == JStr(<< >>)
UntitledCase == JStr(<< "U", "n", "t", "i", "t", "l", "e", "d", " ", "C", "a", "s", "e" >>)
IndianKanoon == JStr(<< "I", "n", "d", "i", "a", "n", " ", "K", "a", "n", "o", "o", "n" >>)
DocUrlPrefix == << "h", "t", "t", "p", "s", ":", "/", "/", "i", "n", "d", "i", "a", "n", "k", "a", "n", "o", "o", "n", ".", "o", "r", "g", "/", "d", "o", "c", "/" >>

\* the URL built from the record's own tid instead of the identifier chosen
NormalizeDoc_UrlFromTid(doc) ==
  LET title == PyOr(PyOr(Get(doc, "title", EmptyStr), Get(doc, "case_name", EmptyStr)),
                    Get(doc, "name", UntitledCase))
      doc_id == PyOr(PyOr(Get(doc, "tid", EmptyStr), Get(doc, "id", EmptyStr)),
                     Get(doc, "doc_id", EmptyStr))
      headline == PyOr(PyOr(Get(doc, "headline", EmptyStr), Get(doc, "summary", EmptyStr)),
                       Get(doc, "description", EmptyStr))
      source == PyOr(PyOr(Get(doc, "docsource", EmptyStr), Get(doc, "court", EmptyStr)),
                     Get(doc, "source", IndianKanoon))
      tid == Get(doc, "tid", EmptyStr)
  IN  [ title |-> title,
        tid |-> doc_id,
        headline |-> headline,
        docsource |-> source,
        docsize |-> Get(doc, "docsize", JInt(0)),
        url |-> IF Truthy(tid) THEN DocUrlPrefix \o PyStr(tid) \o << "/" >> ELSE << >>,
        summary |-> headline,
        source |-> "Indian Kanoon API" ]

\* lines 226-242: one raw record to one summary
NormalizeDoc(doc) ==
  LET title == PyOr(PyOr(Get(doc, "title", EmptyStr), Get(doc, "case_name", EmptyStr)),
                    Get(doc, "name", UntitledCase))
      doc_id == PyOr(PyOr(Get(doc, "tid", EmptyStr), Get(doc, "id", EmptyStr)),
                     Get(doc, "doc_id", EmptyStr))
      headline == PyOr(PyOr(Get(doc, "headline", EmptyStr), Get(doc, "summary", EmptyStr)),
                       Get(doc, "description", EmptyStr))
      source == PyOr(PyOr(Get(doc, "docsource", EmptyStr), Get(doc, "court", EmptyStr)),
                     Get(doc, "source", IndianKanoon))
  IN  [ title |-> title,
        tid |-> doc_id,
        headline |-> headline,
        docsource |-> source,
        docsize |-> Get(doc, "docsize", JInt(0)),
        url |-> IF Truthy(doc_id) THEN DocUrlPrefix \o PyStr(doc_id) \o << "/" >> ELSE << >>,
        summary |-> headline,
        source |-> "Indian Kanoon API" ]

\* outcomes of a piece of code: a value returned, or an exception raised
Return(v) == [exc |-> "none", ret |-> v]
Raise(e) == [exc |-> e, ret |-> << >>]

HasKey(data, key) == \E i \in 1..Len(data.v) : data.v[i].k = key
Lookup(data, key) == data.v[CHOOSE i \in 1..Len(data.v) : data.v[i].k = key].v

\* value[:limit] for a field of the body: a list gives its first records, a
\* string gives its characters, anything else cannot be sliced
SliceField(value, limit_) ==
  CASE value.t = "list" -> Return(PySlice(value.v, limit_))
    [] value.t = "str" ->
         Return(PySlice([i \in 1..Len(value.v) |-> JStr(<< value.v[i] >>)], limit_))
    [] OTHER -> Raise("TypeError")

\* lines 217-224: the first field, in iteration order, holding a non-empty list
FirstListField(data, limit_) ==
  LET hits == {i \in 1..Len(data.v) : data.v[i].v.t = "list" /\ data.v[i].v.v # << >>}
  IN  IF hits = {} THEN [found |-> FALSE, docs |-> << >>]
      ELSE LET first == CHOOSE i \in hits : \A j \in hits : i <= j
           IN  [found |-> TRUE, docs |-> PySlice(data.v[first].v.v, limit_)]

\* lines 226-245: the summaries of the records, or the AttributeError of the
\* first record that is not an object
NormalizeAll(docs) ==
  IF \E i \in 1..Len(docs) : docs[i].t # "doc"
    THEN Raise("AttributeError")
    ELSE Return([i \in 1..Len(docs) |-> NormalizeDoc(docs[i])])

\* lines 200-245, the body of the inner try once the JSON is decoded.  Line 200
\* formats list(data.keys()) into its log message before anything else.
ParseData(data, limit_) ==
  IF data.t # "dict" THEN Raise("AttributeError")
  ELSE IF data.t = "list" THEN NormalizeAll(PySlice(data.v, limit_))
  ELSE IF HasKey(data, "docs") THEN
    (LET d == SliceField(Lookup(data, "docs"), limit_)
     IN  IF d.exc # "none" THEN d ELSE NormalizeAll(d.ret))
  ELSE IF HasKey(data, "results") THEN
    (LET d == SliceField(Lookup(data, "results"), limit_)
     IN  IF d.exc # "none" THEN d ELSE NormalizeAll(d.ret))
  ELSE
    (LET f == FirstListField(data, limit_)
     IN  IF f.found THEN NormalizeAll(f.docs) ELSE Return(<< >>))

\* lines 193-198: response.json(), whose JSONDecodeError returns []
DecodeAndParse(body, limit_) ==
  IF body = NotJson THEN Return(<< >>) ELSE ParseData(body, limit_)

\* lines 247-250: except Exception as parse_error: return []
InnerExcept(outcome) == IF outcome.exc # "none" THEN Return(<< >>) ELSE outcome

\* lines 187-259: what the final response is turned into
HandleResponse(resp, limit_) ==
  IF resp.status = 200 THEN InnerExcept(DecodeAndParse(resp.body, limit_))
  ELSE IF resp.status = 401 \/ resp.status = 403 THEN Return(<< >>)
  ELSE Return(<< >>)

\* no handler around the requests: what is raised leaves the function
OuterExcept_Propagate(outcome) == outcome

\* lines 261-263: except Exception as e: return []
OuterExcept(outcome) == IF outcome.exc # "none" THEN Return(<< >>) ELSE outcome

-----------------------------------------------------------------------------
(* Inputs: request texts, remote outcomes *)

\* texts a /chat message or a /search q is drawn from: "", "  ", " land ",
\* "act", "zzz", "Breach of Contract"
Messages ==
  { << >>, << " ", " " >>,
    << " ", "l", "a", "n", "d", " " >>,
    << "a", "c", "t" >>,
    << "z", "z", "z" >>,
    << "B", "r", "e", "a", "c", "h", " ", "o", "f", " ", "C", "o", "n", "t", "r", "a", "c", "t" >> }

AllDocKeys ==
  {"title", "case_name", "name", "tid", "id", "doc_id", "headline", "summary",
   "description", "docsource", "court", "source", "docsize"}

EmptyDoc == [k \in AllDocKeys |-> Absent]

\* the values an identifier field is drawn from: missing, null, "", 0, a
\* non-empty string, a non-zero number
IdValues(s, n) == {Absent, JNull, EmptyStr, JInt(0), JStr(s), JInt(n)}

IdDocs ==
  { JDoc([EmptyDoc EXCEPT !["tid"] = a, !["id"] = b, !["doc_id"] = c]) :
      a \in IdValues(<< "7" >>, 71), b \in IdValues(<< "8" >>, 82),
      c \in IdValues(<< "9" >>, 93) }

\* the values a title field is drawn from: missing, null, "", a non-empty string
TitleValues(s) == {Absent, JNull, EmptyStr, JStr(s)}

TitleDocs ==
  { JDoc([EmptyDoc EXCEPT !["title"] = a, !["case_name"] = b, !["name"] = c]) :
      a \in TitleValues(<< "T" >>), b \in TitleValues(<< "C" >>),
      c \in TitleValues(<< "N" >>) }

\* the i-th record of the lists the bodies carry
ListDoc(i) ==
  JDoc([EmptyDoc EXCEPT !["title"] = JStr(<< "T" >> \o NatToStr(i)), !["tid"] = JInt(i)])

DocPrefix(n) == [i \in 1..n |-> ListDoc(i)]

Junk == JStr(<< "x" >>)

FieldValues == {JList(DocPrefix(n)) : n \in 0..MaxDocs} \cup {JNull, Junk}

BodyKeys == {"docs", "results", "hits", "items"}

BodyFields == {[k |-> key, v |-> val] : key \in BodyKeys, val \in FieldValues}

\* the sequences of at most n fields with pairwise different keys
RECURSIVE FieldSeqs(_)
FieldSeqs(n) ==
  IF n = 0 THEN {<< >>}
  ELSE LET shorter == FieldSeqs(n - 1)
           longest == {fs \in shorter : Len(fs) = n - 1}
       IN  shorter \cup
           UNION { { Append(fs, f) :
                       f \in {g \in BodyFields : \A i \in 1..Len(fs) : fs[i].k # g.k} } :
                   fs \in longest }

\* the bodies a 200 response is drawn from
Bodies ==
  {NotJson, JNull, Junk, JInt(5)}
    \cup {JList(DocPrefix(n)) : n \in 0..MaxDocs}
    \cup {JDict(fs) : fs \in FieldSeqs(MaxFields)}
    \cup {JDict(<< [k |-> "docs", v |-> JList(<< d >>)] >>) : d \in IdDocs}
    \cup {JDict(<< [k |-> "docs", v |-> JList(<< d >>)] >>) : d \in TitleDocs}
    \cup {JDict(<< [k |-> "docs", v |-> JList(<< ListDoc(1), Junk >>)] >>),
          JDict(<< [k |-> "docs", v |-> JList(<< Junk, ListDoc(1) >>)] >>)}

Statuses == {200, 401, 403, 405, 500}

NoResp == [kind |-> "none", status |-> 0, body |-> NotJson]

\* the bodies a 200 response to a /chat or /search request is drawn from
ServiceBodies ==
  {NotJson, JList(DocPrefix(1)), JDict(<< [k |-> "hits", v |-> JList(DocPrefix(MaxDocs))] >>)}
    \cup {JDict(<< [k |-> "docs", v |-> JList(DocPrefix(n))] >>) : n \in 0..MaxDocs}

\* what a request comes back with: a transport fault (requests raises), or a
\* response; the body matters to the code only under status 200
OutcomesOver(bodies) ==
  {[kind |-> "fault", status |-> 0, body |-> NotJson]}
    \cup {[kind |-> "response", status |-> 200, body |-> b] : b \in bodies}
    \cup {[kind |-> "response", status |-> st, body |-> NotJson] : st \in Statuses \ {200}}

Outcomes == OutcomesOver(Bodies)

ServiceOutcomes == OutcomesOver(ServiceBodies)

RequestTimeout == 15

SearchUrl == "https://api.indiankanoon.org/search/"

\* line 167: requests.post(url, headers=headers, data=form_data, timeout=15)
PostRequest(query_) ==
  [method |-> "POST", url |-> SearchUrl, payload |-> "data", formInput |-> query_,
   pagenum |-> 0, timeout |-> RequestTimeout]

\* line 184: requests.get(get_url, headers=get_headers, params=get_params, timeout=15)
GetRequest(query_) ==
  [method |-> "GET", url |-> SearchUrl, payload |-> "params", formInput |-> query_,
   pagenum |-> 0, timeout |-> RequestTimeout]

-----------------------------------------------------------------------------
(* /chat and /search: what the handlers build *)

ChatRemoteLimit == 3
ChatLocalTopK == 2
FallbackTopK == 2
SearchRemoteCap == 8
SearchLocalCap == 5

\* lines 381-388
RemoteSource(case) ==
  [ title |-> case.title, url |-> case.url, docsource |-> case.docsource,
    tid |-> case.tid, type |-> "indian_kanoon", priority |-> "high" ]

\* lines 400-407
LocalSource(case) ==
  [ title |-> case.case_title, court |-> case.court, year |-> case.year,
    citation |-> case.citation, type |-> "local_database", priority |-> "medium" ]

\* the local cases put in front of the remote ones
ChatSources_LocalFirst(indian_kanoon_cases, similar_cases) ==
  [i \in 1..Len(similar_cases) |-> LocalSource(similar_cases[i])]
    \o [i \in 1..Len(indian_kanoon_cases) |-> RemoteSource(indian_kanoon_cases[i])]

\* the local cases listed only when the remote source gave some
ChatSources_LocalNeedsRemote(indian_kanoon_cases, similar_cases) ==
  IF indian_kanoon_cases = << >> THEN << >>
  ELSE [i \in 1..Len(indian_kanoon_cases) |-> RemoteSource(indian_kanoon_cases[i])]
         \o [i \in 1..Len(similar_cases) |-> LocalSource(similar_cases[i])]

\* lines 370-407: the remote cases first, then the local ones
ChatSources(indian_kanoon_cases, similar_cases) ==
  [i \in 1..Len(indian_kanoon_cases) |-> RemoteSource(indian_kanoon_cases[i])]
    \o [i \in 1..Len(similar_cases) |-> LocalSource(similar_cases[i])]

\* lines 369-409: one block per case, or the sentinel when there is none
ChatContext(indian_kanoon_cases, similar_cases) ==
  LET parts ==
        [i \in 1..Len(indian_kanoon_cases) |->
           [block |-> "LIVE CASE from Indian Kanoon", case |-> indian_kanoon_cases[i]]]
        \o [i \in 1..Len(similar_cases) |->
           [block |-> "REFERENCE CASE from Database", case |-> similar_cases[i]]]
  IN  IF parts # << >> THEN [t |-> "blocks", parts |-> parts]
      ELSE [t |-> "text", parts |-> << "No specific matching cases found." >>]

\* lines 325-326: the text before the case summaries
FallbackHead ==
  << "B", "a", "s", "e", "d", " ", "o", "n", " ", "s", "i", "m", "i", "l", "a", "r", " ",
     "l", "e", "g", "a", "l", " ", "c", "a", "s", "e", "s", " ", "i", "n", " ", "o", "u",
     "r", " ", "d", "a", "t", "a", "b", "a", "s", "e", ":", "\n", "\n" >>

\* line 323: the three characters the source file has before each summary
\* (U+00E2, U+20AC, U+00A2), and the space after them
BulletPrefix == << "U+00E2", "U+20AC", "U+00A2", " " >>

\* lines 328-329: the text between the summaries and the query
FallbackBeforeQuery ==
  << "\n", "\n", "K", "e", "y", " ", "c", "o", "n", "s", "i", "d", "e", "r", "a", "t",
     "i", "o", "n", "s", " ", "f", "o", "r", " ", "y", "o", "u", "r", " ", "q", "u", "e",
     "r", "y", " ", "a", "b", "o", "u", "t", " ", "\"" >>

\* lines 329-335: the text after the query
FallbackAfterQuery ==
  << "\"", ":", "\n", "-", " ", "R", "e", "v", "i", "e", "w", " ", "r", "e", "l", "e",
     "v", "a", "n", "t", " ", "c", "a", "s", "e", " ", "l", "a", "w", " ", "a", "n", "d",
     " ", "p", "r", "e", "c", "e", "d", "e", "n", "t", "s", "\n", "-", " ", "G", "a", "t",
     "h", "e", "r", " ", "a", "l", "l", " ", "n", "e", "c", "e", "s", "s", "a", "r", "y",
     " ", "d", "o", "c", "u", "m", "e", "n", "t", "a", "t", "i", "o", "n", "\n", "-", " ",
     "C", "o", "n", "s", "i", "d", "e", "r", " ", "t", "h", "e", " ", "s", "p", "e", "c",
     "i", "f", "i", "c", " ", "l", "e", "g", "a", "l", " ", "p", "r", "i", "n", "c", "i",
     "p", "l", "e", "s", " ", "t", "h", "a", "t", " ", "a", "p", "p", "l", "y", "\n", "-",
     " ", "C", "o", "n", "s", "u", "l", "t", " ", "w", "i", "t", "h", " ", "a", " ", "q",
     "u", "a", "l", "i", "f", "i", "e", "d", " ", "l", "e", "g", "a", "l", " ", "p", "r",
     "o", "f", "e", "s", "s", "i", "o", "n", "a", "l", " ", "f", "o", "r", " ", "p", "e",
     "r", "s", "o", "n", "a", "l", "i", "z", "e", "d", " ", "a", "d", "v", "i", "c", "e",
     "\n", "\n", "T", "h", "i", "s", " ", "i", "s", " ", "b", "a", "s", "e", "d", " ",
     "o", "n", " ", "s", "i", "m", "i", "l", "a", "r", " ", "c", "a", "s", "e", "s", " ",
     "a", "n", "d", " ", "g", "e", "n", "e", "r", "a", "l", " ", "l", "e", "g", "a", "l",
     " ", "p", "r", "i", "n", "c", "i", "p", "l", "e", "s", ".", " ", "F", "o", "r", " ",
     "s", "p", "e", "c", "i", "f", "i", "c", " ", "l", "e", "g", "a", "l", " ", "a", "d",
     "v", "i", "c", "e", " ", "t", "a", "i", "l", "o", "r", "e", "d", " ", "t", "o", " ",
     "y", "o", "u", "r", " ", "s", "i", "t", "u", "a", "t", "i", "o", "n", ",", " ", "p",
     "l", "e", "a", "s", "e", " ", "c", "o", "n", "s", "u", "l", "t", " ", "w", "i", "t",
     "h", " ", "a", " ", "p", "r", "a", "c", "t", "i", "c", "i", "n", "g", " ", "l", "a",
     "w", "y", "e", "r", "." >>

\* line 338: the deflection, before and after the query
GenericBeforeQuery ==
  << "I", " ", "u", "n", "d", "e", "r", "s", "t", "a", "n", "d", " ", "y", "o", "u", "'",
     "r", "e", " ", "a", "s", "k", "i", "n", "g", " ", "a", "b", "o", "u", "t", ":", " " >>

GenericAfterQuery ==
  << ".", " ", "I", " ", "r", "e", "c", "o", "m", "m", "e", "n", "d", " ", "c", "o", "n",
     "s", "u", "l", "t", "i", "n", "g", " ", "w", "i", "t", "h", " ", "a", " ", "q", "u",
     "a", "l", "i", "f", "i", "e", "d", " ", "l", "e", "g", "a", "l", " ", "p", "r", "o",
     "f", "e", "s", "s", "i", "o", "n", "a", "l", " ", "w", "h", "o", " ", "c", "a", "n",
     " ", "p", "r", "o", "v", "i", "d", "e", " ", "s", "p", "e", "c", "i", "f", "i", "c",
     " ", "a", "d", "v", "i", "c", "e", " ", "f", "o", "r", " ", "y", "o", "u", "r", " ",
     "s", "i", "t", "u", "a", "t", "i", "o", "n", "." >>

\* line 323: one summary line
CaseSummary(case) == BulletPrefix \o case.case_title \o << ":", " " >> \o case.judgment

\* chr(10).join(lines)
RECURSIVE JoinLines(_)
JoinLines(lines) ==
  IF lines = << >> THEN << >>
  ELSE IF Len(lines) = 1 THEN lines[1]
  ELSE lines[1] \o << "\n" >> \o JoinLines(Tail(lines))

\* lines 317-338
generate_fallback_response(query_) ==
  LET matching_cases == simple_text_search(query_, SAMPLE_LEGAL_CASES, FallbackTopK)
  IN  IF matching_cases # << >>
        THEN [ t |-> "fallback",
               text |-> FallbackHead
                          \o JoinLines([i \in 1..Len(matching_cases) |->
                                          CaseSummary(matching_cases[i])])
                          \o FallbackBeforeQuery \o query_ \o FallbackAfterQuery ]
        ELSE [ t |-> "fallback",
               text |-> GenericBeforeQuery \o query_ \o GenericAfterQuery ]

\* what model.generate_content(prompt).text is: a text the service only copies
GeneratedText == [t |-> "generated", text |-> << "response.text" >>]

\* the handler of generate_ai_response left out: the fault leaves the function
GenExcept_Propagate(outcome, query_) == outcome

\* lines 313-315: except Exception as e: return generate_fallback_response(query)
GenExcept(outcome, query_) ==
  IF outcome.exc # "none" THEN Return(generate_fallback_response(query_)) ELSE outcome

\* lines 288-315; gen is what model.generate_content does with the prompt
generate_ai_response(query_, context, gen) ==
  IF ~model THEN Return(generate_fallback_response(query_))
  ELSE GenExcept(IF gen = "text" THEN Return(GeneratedText) ELSE Raise("GenerationError"),
                 query_)

\* line 423
ApologyText ==
  << "I", " ", "a", "p", "o", "l", "o", "g", "i", "z", "e", ",", " ", "b", "u", "t", " ",
     "I", " ", "e", "n", "c", "o", "u", "n", "t", "e", "r", "e", "d", " ", "a", "n", " ",
     "e", "r", "r", "o", "r", " ", "w", "h", "i", "l", "e", " ", "p", "r", "o", "c", "e",
     "s", "s", "i", "n", "g", " ", "y", "o", "u", "r", " ", "r", "e", "q", "u", "e", "s",
     "t", ".", " ", "P", "l", "e", "a", "s", "e", " ", "t", "r", "y", " ", "a", "g", "a",
     "i", "n", " ", "o", "r", " ", "c", "o", "n", "t", "a", "c", "t", " ", "s", "u", "p",
     "p", "o", "r", "t", "." >>

\* lines 422-426
ChatErrorResponse ==
  [ response |-> [t |-> "apology", text |-> ApologyText],
    sources |-> << >>, success |-> FALSE ]

\* lines 420-426: except Exception as e (HTTPException is an Exception)
ChatExcept(outcome) == IF outcome.exc # "none" THEN Return(ChatErrorResponse) ELSE outcome

\* lines 368-418: the try body after both sources have answered
ChatBody(query_, indian_kanoon_cases, similar_cases, gen) ==
  LET ai_response ==
        generate_ai_response(query_, ChatContext(indian_kanoon_cases, similar_cases), gen)
  IN  IF ai_response.exc # "none" THEN ai_response
      ELSE Return([ response |-> ai_response.ret,
                    sources |-> ChatSources(indian_kanoon_cases, similar_cases),
                    success |-> TRUE ])

\* lines 441-453
IkFormatted(case) ==
  [ title |-> case.title, tid |-> case.tid, headline |-> case.headline,
    docsource |-> case.docsource, docsize |-> case.docsize, url |-> case.url,
    summary |-> case.headline, source |-> "Indian Kanoon API", type |-> "live_case" ]

\* lines 456-468
LocalFormatted(case) ==
  [ title |-> case.case_title, court |-> case.court, year |-> case.year,
    citation |-> case.citation, facts |-> case.facts, judgment |-> case.judgment,
    legal_issues |-> case.legal_issues, source |-> "Local Database",
    type |-> "sample_case" ]

\* lines 440-481
SearchBody(q, indian_kanoon_cases, local_cases) ==
  Return([ query |-> q,
           indian_kanoon_cases |->
             [i \in 1..Len(indian_kanoon_cases) |-> IkFormatted(indian_kanoon_cases[i])],
           local_cases |-> [i \in 1..Len(local_cases) |-> LocalFormatted(local_cases[i])],
           total_results |-> Len(indian_kanoon_cases) + Len(local_cases),
           primary_source |-> "Indian Kanoon API",
           api_status |-> IF indian_kanoon_cases # << >> THEN "active" ELSE "no_results",
           success |-> TRUE ])

\* lines 483-494: except Exception as e; k is min(5, limit)
SearchExcept(outcome, q, k) ==
  IF outcome.exc = "none" THEN outcome
  ELSE Return([ query |-> q,
                indian_kanoon_cases |-> << >>,
                local_cases |-> simple_text_search(q, SAMPLE_LEGAL_CASES, k),
                total_results |-> k,
                primary_source |-> "Local Database Only",
                api_status |-> "error",
                success |-> FALSE ])

Pending == [exc |-> "pending", ret |-> << >>]

-----------------------------------------------------------------------------
(* The service: one request at a time, split where the handler waits *)

Init ==
  /\ INDIAN_KANOON_API_KEY \in BOOLEAN
  /\ model \in BOOLEAN
  /\ pc = "idle"
  /\ endpoint = "none"
  /\ message = << >>
  /\ query = << >>
  /\ limit = 0
  /\ top_k = 0
  /\ sent = << >>
  /\ lastResp = NoResp
  /\ ikCases = << >>
  /\ raised = "none"
  /\ remoteCalls = 0
  /\ localCalls = 0
  /\ genCalls = 0
  /\ genOutcome = "not_called"
  /\ response = Pending
  /\ s_query = << >>
  /\ s_cases = << >>
  /\ s_top_k = 0
  /\ s_result = << >>
  /\ s_pc = "unused"

\* lines 142-167: entry of get_indian_kanoon_cases up to the POST
FetchBegin(query_) ==
  /\ remoteCalls' = 1
  /\ lastResp' = NoResp
  /\ ikCases' = << >>
  /\ raised' = "none"
  /\ IF ~INDIAN_KANOON_API_KEY
       THEN sent' = << >> /\ pc' = "fetched"
       ELSE sent' = << PostRequest(query_) >> /\ pc' = "post_wait"

\* get_indian_kanoon_cases returns (or raises) to the handler
FetchEnd(outcome, resp) ==
  /\ ikCases' = outcome.ret
  /\ raised' = outcome.exc
  /\ lastResp' = resp
  /\ pc' = "fetched"

\* lines 357-363: POST /chat
ChatReceive ==
  /\ pc \in {"idle", "done"}
  /\ \E msg \in Messages :
       LET q == Strip(msg)
       IN  /\ endpoint' = "chat"
           /\ message' = msg
           /\ query' = q
           /\ limit' = ChatRemoteLimit
           /\ top_k' = ChatLocalTopK
           /\ localCalls' = 0
           /\ genCalls' = 0
           /\ genOutcome' = "not_called"
           /\ IF q = << >>
                THEN /\ response' = ChatExcept(Raise("HTTPException"))
                     /\ pc' = "done"
                     /\ remoteCalls' = 0
                     /\ sent' = << >>
                     /\ lastResp' = NoResp
                     /\ ikCases' = << >>
                     /\ raised' = "none"
                ELSE /\ response' = Pending
                     /\ FetchBegin(q)
  /\ UNCHANGED << INDIAN_KANOON_API_KEY, model, callVars >>

\* lines 429-435: GET /search?q=..&limit=..
SearchReceive ==
  /\ pc \in {"idle", "done"}
  /\ \E q \in Messages, lim \in -1..MaxLimit :
       /\ endpoint' = "search"
       /\ message' = q
       /\ query' = q
       /\ limit' = PyMin(SearchRemoteCap, lim)
       /\ top_k' = PyMin(SearchLocalCap, lim)
       /\ localCalls' = 0
       /\ genCalls' = 0
       /\ genOutcome' = "not_called"
       /\ response' = Pending
       /\ FetchBegin(q)
  /\ UNCHANGED << INDIAN_KANOON_API_KEY, model, callVars >>

\* the GET tried after every refusal of the POST, 401 and 403 included
PostReturnOf_RetryOnRefusal(outcomes) ==
  /\ pc = "post_wait"
  /\ \E o \in outcomes :
       IF o.kind = "fault"
         THEN FetchEnd(OuterExcept(Raise("RequestException")), o) /\ sent' = sent
       ELSE IF o.status \in {401, 403, 405}
         THEN /\ sent' = Append(sent, GetRequest(query))
              /\ pc' = "get_wait"
              /\ lastResp' = o
              /\ UNCHANGED << ikCases, raised >>
       ELSE FetchEnd(OuterExcept(HandleResponse(o, limit)), o) /\ sent' = sent
  /\ UNCHANGED << INDIAN_KANOON_API_KEY, model, endpoint, message, query, limit, top_k,
                  remoteCalls, localCalls, genCalls, genOutcome, response, callVars >>

\* lines 167-263: the POST comes back
PostReturnOf(outcomes) ==
  /\ pc = "post_wait"
  /\ \E o \in outcomes :
       IF o.kind = "fault"
         THEN FetchEnd(OuterExcept(Raise("RequestException")), o) /\ sent' = sent
       ELSE IF o.status = 405
         THEN /\ sent' = Append(sent, GetRequest(query))
              /\ pc' = "get_wait"
              /\ lastResp' = o
              /\ UNCHANGED << ikCases, raised >>
       ELSE FetchEnd(OuterExcept(HandleResponse(o, limit)), o) /\ sent' = sent
  /\ UNCHANGED << INDIAN_KANOON_API_KEY, model, endpoint, message, query, limit, top_k,
                  remoteCalls, localCalls, genCalls, genOutcome, response, callVars >>

\* lines 184-263: the GET comes back
GetReturnOf(outcomes) ==
  /\ pc = "get_wait"
  /\ \E o \in outcomes :
       IF o.kind = "fault"
         THEN FetchEnd(OuterExcept(Raise("RequestException")), o)
         ELSE FetchEnd(OuterExcept(HandleResponse(o, limit)), o)
  /\ UNCHANGED << INDIAN_KANOON_API_KEY, model, endpoint, message, query, limit, top_k,
                  sent, remoteCalls, localCalls, genCalls, genOutcome, response,
                  callVars >>

PostReturn == PostReturnOf(ServiceOutcomes)

GetReturn == GetReturnOf(ServiceOutcomes)

GenOutcomes == {"text", "fault"}

\* lines 365-426: the rest of chat_endpoint
ChatFinish ==
  /\ pc = "fetched"
  /\ endpoint = "chat"
  /\ \E gen \in GenOutcomes :
       IF raised # "none"
         THEN /\ response' = ChatExcept(Raise(raised))
              /\ UNCHANGED << localCalls, genCalls, genOutcome >>
         ELSE LET similar_cases == simple_text_search(query, SAMPLE_LEGAL_CASES, top_k)
              IN  /\ response' = ChatExcept(ChatBody(query, ikCases, similar_cases, gen))
                  /\ genCalls' = IF model THEN 1 ELSE 0
                  /\ genOutcome' = IF model THEN gen ELSE "not_called"
                  /\ localCalls' = IF model /\ gen = "text" THEN 1 ELSE 2
  /\ pc' = "done"
  /\ lastResp' = NoResp
  /\ UNCHANGED << INDIAN_KANOON_API_KEY, model, endpoint, message, query, limit, top_k,
                  sent, ikCases, raised, remoteCalls, callVars >>

\* lines 437-494: the rest of search_cases
SearchFinish ==
  /\ pc = "fetched"
  /\ endpoint = "search"
  /\ IF raised # "none"
       THEN /\ response' = SearchExcept(Raise(raised), query, top_k)
            /\ localCalls' = 1
       ELSE LET local_cases == simple_text_search(query, SAMPLE_LEGAL_CASES, top_k)
            IN  /\ response' = SearchExcept(SearchBody(query, ikCases, local_cases),
                                            query, top_k)
                /\ localCalls' = 1
  /\ pc' = "done"
  /\ lastResp' = NoResp
  /\ UNCHANGED << INDIAN_KANOON_API_KEY, model, endpoint, message, query, limit, top_k,
                  sent, ikCases, raised, remoteCalls, genCalls, genOutcome, callVars >>

Next == ChatReceive \/ SearchReceive \/ PostReturn \/ GetReturn \/ ChatFinish \/ SearchFinish

Spec == Init /\ [][Next]_vars

-----------------------------------------------------------------------------
(* get_indian_kanoon_cases called on its own, over every body *)

FetchLimits == (-1..MaxLimit) \cup {ChatRemoteLimit}

InitFetch ==
  /\ Init
  /\ model = FALSE

\* get_indian_kanoon_cases(query, limit)
FetchCall ==
  /\ pc = "idle"
  /\ \E q \in Messages, lim \in FetchLimits :
       /\ endpoint' = "direct"
       /\ message' = q
       /\ query' = q
       /\ limit' = lim
       /\ FetchBegin(q)
  /\ UNCHANGED << INDIAN_KANOON_API_KEY, model, top_k, localCalls, genCalls, genOutcome,
                  response, callVars >>

FetchPostReturn == PostReturnOf(Outcomes)

FetchGetReturn == GetReturnOf(Outcomes)

NextFetch == FetchCall \/ FetchPostReturn \/ FetchGetReturn

SpecFetch == InitFetch /\ [][NextFetch]_vars

-----------------------------------------------------------------------------
(* simple_text_search called on its own, over small corpora *)

Alphabet == {"a", "A", "b", " "}

RECURSIVE StringsUpTo(_)
StringsUpTo(n) ==
  IF n = 0 THEN {<< >>}
  ELSE LET shorter == StringsUpTo(n - 1)
       IN  shorter \cup {Append(s, c) : s \in {x \in shorter : Len(x) = n - 1},
                                        c \in Alphabet}

\* the cases the corpora are made of
CasePool ==
  { [ case_title |-> t, facts |-> f, judgment |-> << >>, legal_issues |-> << >>,
      court |-> "Court", year |-> "2023", citation |-> "C" ] :
      t \in {<< "A" >>, << "b", " ", "a" >>}, f \in {<< "a" >>, << "b" >>} }

\* the sequences of at most n different cases
RECURSIVE CorporaUpTo(_)
CorporaUpTo(n) ==
  IF n = 0 THEN {<< >>}
  ELSE LET shorter == CorporaUpTo(n - 1)
       IN  shorter \cup
           UNION { { Append(cs, c) :
                       c \in {d \in CasePool : \A i \in 1..Len(cs) : cs[i] # d} } :
                   cs \in {x \in shorter : Len(x) = n - 1} }

InitLocal ==
  /\ INDIAN_KANOON_API_KEY = FALSE
  /\ model = FALSE
  /\ pc = "idle"
  /\ endpoint = "none"
  /\ message = << >>
  /\ query = << >>
  /\ limit = 0
  /\ top_k = 0
  /\ sent = << >>
  /\ lastResp = NoResp
  /\ ikCases = << >>
  /\ raised = "none"
  /\ remoteCalls = 0
  /\ localCalls = 0
  /\ genCalls = 0
  /\ genOutcome = "not_called"
  /\ response = Pending
  /\ s_query \in StringsUpTo(MaxQueryLen)
  /\ s_cases \in CorporaUpTo(MaxCorpus)
  /\ s_top_k \in 0..MaxTopK
  /\ s_result = << >>
  /\ s_pc = "ready"

\* simple_text_search(query, cases, top_k)
SearchCall ==
  /\ s_pc = "ready"
  /\ s_result' = simple_text_search(s_query, s_cases, s_top_k)
  /\ s_pc' = "returned"
  /\ UNCHANGED << svcVars, s_query, s_cases, s_top_k >>

NextLocal == SearchCall

SpecLocal == InitLocal /\ [][NextLocal]_vars

-----------------------------------------------------------------------------
(* Properties of get_indian_kanoon_cases, checked under SpecFetch *)

Fetched == endpoint = "direct" /\ pc = "fetched"

\* the list a parseable body offers its records in: the body itself when it is
\* a list, else `docs`, else `results`, else the first field holding a
\* non-empty list; << >> when there is none
PreferredList(body) ==
  IF body.t = "list" THEN body
  ELSE IF body.t # "dict" THEN JList(<< >>)
  ELSE IF \E i \in 1..Len(body.v) : body.v[i].k = "docs"
    THEN body.v[CHOOSE i \in 1..Len(body.v) : body.v[i].k = "docs"].v
  ELSE IF \E i \in 1..Len(body.v) : body.v[i].k = "results"
    THEN body.v[CHOOSE i \in 1..Len(body.v) : body.v[i].k = "results"].v
  ELSE IF \E i \in 1..Len(body.v) : body.v[i].v.t = "list" /\ body.v[i].v.v # << >>
    THEN body.v[CHOOSE i \in 1..Len(body.v) :
                  /\ body.v[i].v.t = "list" /\ body.v[i].v.v # << >>
                  /\ \A j \in 1..(i - 1) :
                       ~(body.v[j].v.t = "list" /\ body.v[j].v.v # << >>)].v
  ELSE JList(<< >>)

\* the first n elements of a sequence, n >= 0
FirstN(seq, n) == [i \in 1..(IF n < Len(seq) THEN n ELSE Len(seq)) |-> seq[i]]

\* a body of a shape the fetch does not recognise, or whose records (those
\* within the limit) are not all objects
BadShape(body, lim) ==
  \/ body.t \in {"null", "str", "int"}
  \/ /\ body.t = "dict"
     /\ \A i \in 1..Len(body.v) :
          /\ body.v[i].k \notin {"docs", "results"}
          /\ ~(body.v[i].v.t = "list" /\ body.v[i].v.v # << >>)
  \/ /\ body.t = "dict"
     /\ PreferredList(body).t # "list"
  \/ /\ body.t = "dict"
     /\ PreferredList(body).t = "list"
     /\ \E i \in 1..Len(FirstN(PreferredList(body).v, lim)) :
          PreferredList(body).v[i].t # "doc"

\* C1: get_indian_kanoon_cases never raises to its caller, and for limit >= 1
\* it returns the empty sequence whenever the credential is missing, a request
\* (primary or fallback) ends in a transport fault, the final status is not
\* 200, or the 200 body is unparseable or of an unrecognised/malformed shape.
C1_NeverRaises ==
  Fetched =>
    /\ raised = "none"
    /\ ( /\ limit >= 1
         /\ \/ sent = << >>
            \/ lastResp.kind = "fault"
            \/ lastResp.status # 200
            \/ lastResp.body = NotJson
            \/ BadShape(lastResp.body, limit) )
       => ikCases = << >>

\* a transport fault on the fallback request, answered with the empty sequence
C1_Witness ==
  /\ Fetched /\ limit >= 1
  /\ Len(sent) = 2 /\ lastResp.kind = "fault"
  /\ ikCases = << >> /\ raised = "none"

\* C2: one fetch sends at most two requests; the first is the POST with the
\* query as form body; a second request is sent only on a 405 answer to the
\* POST, only once, and is the GET with the same payload as query parameters;
\* after any other answer, and after a 405 to the GET, nothing more is sent.
C2_AtMostTwoRequests ==
  /\ [](/\ Len(sent) <= 2
        /\ (Len(sent) >= 1 => sent[1] = [method |-> "POST", url |-> SearchUrl,
                                         payload |-> "data", formInput |-> query,
                                         pagenum |-> 0, timeout |-> RequestTimeout])
        /\ (Len(sent) = 2 => /\ sent[2].method = "GET"
                             /\ sent[2].payload = "params"
                             /\ sent[2].url = sent[1].url
                             /\ sent[2].formInput = sent[1].formInput
                             /\ sent[2].pagenum = sent[1].pagenum))
  /\ [][ Len(sent') > Len(sent) =>
           \/ sent = << >> /\ Len(sent') = 1 /\ pc = "idle"
           \/ /\ Len(sent) = 1 /\ Len(sent') = 2
              /\ pc = "post_wait"
              /\ lastResp'.kind = "response" /\ lastResp'.status = 405 ]_vars
  /\ [][ (pc \in {"post_wait", "get_wait"} /\ Len(sent') = Len(sent)) =>
           pc' = "fetched" ]_vars
  /\ [][ (pc = "post_wait" /\ lastResp'.kind = "response" /\ lastResp'.status = 405) =>
           Len(sent') = 2 ]_vars

\* the GET was answered 405 and the fetch ended with two requests sent
C2_Witness ==
  /\ Fetched
  /\ Len(sent) = 2
  /\ lastResp.kind = "response" /\ lastResp.status = 405

\* C3: on a 200 response with a parseable body whose records are objects, the
\* summaries returned are the normalisations of the first `limit` records of
\* the preferred list (the body itself when a list, else docs, else results,
\* else the first field holding a non-empty list), in order.
C3_PreferredListNormalized ==
  ( /\ Fetched /\ limit >= 1
    /\ lastResp.kind = "response" /\ lastResp.status = 200
    /\ lastResp.body # NotJson
    /\ PreferredList(lastResp.body).t = "list"
    /\ \A i \in 1..Len(PreferredList(lastResp.body).v) :
         PreferredList(lastResp.body).v[i].t = "doc" )
  => LET records == FirstN(PreferredList(lastResp.body).v, limit)
     IN  /\ Len(ikCases) = Len(records)
         /\ \A i \in 1..Len(records) : ikCases[i] = NormalizeDoc(records[i])

\* the same, for the bodies that are objects
C3_ObjectBodies ==
  (lastResp.body.t = "dict") => C3_PreferredListNormalized

\* a body that is a list of one record, answered with no summary
C3_ListBodyDropped ==
  /\ Fetched /\ limit >= 1
  /\ lastResp.kind = "response" /\ lastResp.status = 200
  /\ lastResp.body.t = "list" /\ Len(lastResp.body.v) = 1
  /\ lastResp.body.v[1].t = "doc"
  /\ ikCases = << >>

\* an identifier that is null, "" or 0
IsEmptyId(v) ==
  \/ v.t = "null"
  \/ v.t = "str" /\ v.v = << >>
  \/ v.t = "int" /\ v.v = 0

HasValue(doc, key) == doc.f[key] # Absent /\ ~IsEmptyId(doc.f[key])

EndsWith(s, suffix) ==
  /\ Len(s) >= Len(suffix)
  /\ \A i \in 1..Len(suffix) : s[Len(s) - Len(suffix) + i] = suffix[i]

\* C10: in every summary the fetch returns, the URL is non-empty exactly when
\* the identifier is non-empty, and then ends with "/<identifier>/"; the
\* identifier is the first of the record's tid, id, doc_id that has a value
\* (is present and not null, "" or 0), and is empty when none has.
C10_UrlIffIdentifier ==
  ( /\ Fetched /\ limit >= 1
    /\ lastResp.kind = "response" /\ lastResp.status = 200 )
  => \A i \in 1..Len(ikCases) :
       LET summary == ikCases[i]
           raw == PreferredList(lastResp.body).v[i]
       IN  /\ (summary.url # << >>) <=> ~IsEmptyId(summary.tid)
           /\ summary.url # << >> =>
                EndsWith(summary.url, << "/" >> \o PyStr(summary.tid) \o << "/" >>)
           /\ IF HasValue(raw, "tid") THEN summary.tid = raw.f["tid"]
              ELSE IF HasValue(raw, "id") THEN summary.tid = raw.f["id"]
              ELSE IF HasValue(raw, "doc_id") THEN summary.tid = raw.f["doc_id"]
              ELSE IsEmptyId(summary.tid)

\* the identifier comes from `id` because `tid` is 0, and the URL ends in /82/
C10_Witness ==
  /\ Fetched
  /\ Len(ikCases) = 1
  /\ lastResp.kind = "response" /\ lastResp.status = 200
  /\ lastResp.body.t = "dict"
  /\ PreferredList(lastResp.body).v[1].f["tid"] = JInt(0)
  /\ ikCases[1].tid = JInt(82)
  /\ EndsWith(ikCases[1].url, << "/", "8", "2", "/" >>)

\* a title field the record has, with a value that is not null or ""
HasTitle(doc, key) ==
  /\ doc.f[key] # Absent
  /\ doc.f[key].t # "null"
  /\ ~(doc.f[key].t = "str" /\ doc.f[key].v = << >>)

\* C11: the title of every summary is the value of the first of the record's
\* title, case_name, name that is present (has a value), and is the literal
\* "Untitled Case" when none of the three is.
C11_TitleFirstPresent ==
  ( /\ Fetched /\ limit >= 1
    /\ lastResp.kind = "response" /\ lastResp.status = 200 )
  => \A i \in 1..Len(ikCases) :
       LET raw == PreferredList(lastResp.body).v[i]
       IN  IF HasTitle(raw, "title") THEN ikCases[i].title = raw.f["title"]
           ELSE IF HasTitle(raw, "case_name") THEN ikCases[i].title = raw.f["case_name"]
           ELSE IF HasTitle(raw, "name") THEN ikCases[i].title = raw.f["name"]
           ELSE ikCases[i].title = UntitledCase

\* what the chain of line 228 gives: the first of title, case_name with a
\* value; failing both, whatever `name` holds when the record has that key,
\* and "Untitled Case" only when it has not
C11_TitleAsCoded ==
  ( /\ Fetched /\ limit >= 1
    /\ lastResp.kind = "response" /\ lastResp.status = 200 )
  => \A i \in 1..Len(ikCases) :
       LET raw == PreferredList(lastResp.body).v[i]
       IN  IF HasTitle(raw, "title") THEN ikCases[i].title = raw.f["title"]
           ELSE IF HasTitle(raw, "case_name") THEN ikCases[i].title = raw.f["case_name"]
           ELSE IF raw.f["name"] # Absent THEN ikCases[i].title = raw.f["name"]
           ELSE ikCases[i].title = UntitledCase

\* a record whose only title field is an empty `name` got the empty title
C11_EmptyNameKept ==
  /\ Fetched /\ limit >= 1 /\ Len(ikCases) = 1
  /\ lastResp.kind = "response" /\ lastResp.status = 200
  /\ lastResp.body.t = "dict"
  /\ PreferredList(lastResp.body).v[1].f["title"] = Absent
  /\ PreferredList(lastResp.body).v[1].f["case_name"] = Absent
  /\ PreferredList(lastResp.body).v[1].f["name"] = EmptyStr
  /\ ikCases[1].title = EmptyStr

-----------------------------------------------------------------------------
(* Properties of /chat and /search, checked under Spec *)

IsBlank(text) == \A i \in 1..Len(text) : text[i] \in Whitespace

ChatDone == endpoint = "chat" /\ pc = "done"

\* C4: while a /chat request whose message is empty or only whitespace is
\* handled, get_indian_kanoon_cases, simple_text_search and the generation
\* call are never made and no request is sent.
C4_NoCallsOnBlank ==
  (endpoint = "chat" /\ IsBlank(message)) =>
    /\ remoteCalls = 0 /\ sent = << >>
    /\ localCalls = 0
    /\ genCalls = 0

\* a whitespace-only message has been answered
C4_Witness ==
  /\ ChatDone
  /\ message # << >> /\ IsBlank(message)
  /\ response.exc = "none"

\* C5: a /chat request whose message is empty or only whitespace ends with
\* the "Empty query" HTTPException reaching the caller, not with the generic
\* success=false response.
C5_BlankRaisesToCaller ==
  (ChatDone /\ IsBlank(message)) =>
    /\ response.exc = "HTTPException"
    /\ response.ret # ChatErrorResponse

\* the members of a sequence that satisfy a test, in order
RECURSIVE Filter(_, _)
Filter(seq, type) ==
  IF seq = << >> THEN << >>
  ELSE IF Head(seq).type = type THEN << Head(seq) >> \o Filter(Tail(seq), type)
  ELSE Filter(Tail(seq), type)

\* C6: for a non-blank message the sources of the /chat response are the
\* remote entries, in the order get_indian_kanoon_cases returned them, followed
\* by the local entries, in the order simple_text_search returned them; remote
\* entries have priority high, local ones medium, and no local entry precedes
\* a remote one.
C6_RemoteThenLocal ==
  (ChatDone /\ ~IsBlank(message)) =>
    LET sources == response.ret.sources
        similar == simple_text_search(query, SAMPLE_LEGAL_CASES, ChatLocalTopK)
        n == Len(ikCases)
    IN  /\ response.exc = "none" /\ response.ret.success
        /\ Len(sources) = n + Len(similar)
        /\ \A i \in 1..n :
             /\ sources[i].type = "indian_kanoon" /\ sources[i].priority = "high"
             /\ sources[i].title = ikCases[i].title
             /\ sources[i].tid = ikCases[i].tid
             /\ sources[i].url = ikCases[i].url
        /\ \A j \in 1..Len(similar) :
             /\ sources[n + j].type = "local_database"
             /\ sources[n + j].priority = "medium"
             /\ sources[n + j].title = similar[j].case_title
             /\ sources[n + j].citation = similar[j].citation
        /\ \A i \in 1..Len(sources) : \A j \in (i + 1)..Len(sources) :
             ~(sources[i].type = "local_database" /\ sources[j].type = "indian_kanoon")

\* two remote entries followed by two local ones
C6_Witness ==
  /\ ChatDone /\ ~IsBlank(message)
  /\ Len(ikCases) = 2
  /\ Len(response.ret.sources) = 4
  /\ response.ret.sources[2].priority = "high"
  /\ response.ret.sources[3].priority = "medium"

\* C7: within one request the local part of the answer is a function of the
\* query (and top_k) alone, whatever the remote source did (records, error
\* status, transport fault, missing credential), and the remote part is what
\* get_indian_kanoon_cases returned, whatever the local search found.
C7_SourcesIndependent ==
  /\ (ChatDone /\ ~IsBlank(message)) =>
       /\ Filter(response.ret.sources, "local_database")
            = LET similar == simple_text_search(query, SAMPLE_LEGAL_CASES, ChatLocalTopK)
              IN  [i \in 1..Len(similar) |-> LocalSource(similar[i])]
       /\ Filter(response.ret.sources, "indian_kanoon")
            = [i \in 1..Len(ikCases) |-> RemoteSource(ikCases[i])]
  /\ (endpoint = "search" /\ pc = "done") =>
       /\ response.ret.local_cases
            = LET found == simple_text_search(query, SAMPLE_LEGAL_CASES,
                                              top_k)
              IN  [i \in 1..Len(found) |-> LocalFormatted(found[i])]
       /\ response.ret.indian_kanoon_cases
            = [i \in 1..Len(ikCases) |-> IkFormatted(ikCases[i])]

\* the remote source was asked and gave nothing, and local entries are there
C7_Witness ==
  /\ ChatDone /\ ~IsBlank(message)
  /\ Len(sent) = 2 /\ ikCases = << >>
  /\ Len(response.ret.sources) = 2
  /\ response.ret.sources[1].type = "local_database"

\* the generation capability is missing, or the call of it faulted
GenerationUnavailable == ~model \/ genOutcome = "fault"

\* what the local search gives for the query of the request, top 2
FallbackMatches == simple_text_search(query, SAMPLE_LEGAL_CASES, FallbackTopK)

\* the /chat request reached the generation step
ChatAnswered == ChatDone /\ ~IsBlank(message) /\ raised = "none"

\* C12: whenever the model is missing or model.generate_content faults,
\* generate_ai_response does not raise (the request succeeds with its text)
\* and returns the fallback text: when the local search for the query (top 2)
\* is non-empty the text contains the title of every matched case, and when
\* it is empty the text is the deflection string, which contains the query.
C12_FallbackOnMissingOrFault ==
  (ChatAnswered /\ GenerationUnavailable) =>
    /\ response.exc = "none"
    /\ response.ret.success
    /\ response.ret.response.t = "fallback"
    /\ LET text == response.ret.response.text
       IN  IF FallbackMatches # << >>
             THEN \A i \in 1..Len(FallbackMatches) :
                    Contains(text, FallbackMatches[i].case_title)
             ELSE /\ text = GenericBeforeQuery \o query \o GenericAfterQuery
                  /\ Contains(text, query)

\* the model is there, its call faulted, and the answer names two matched cases
C12_Witness ==
  /\ ChatAnswered
  /\ model /\ genOutcome = "fault" /\ genCalls = 1
  /\ Len(FallbackMatches) = 2
  /\ response.ret.success
  /\ Contains(response.ret.response.text, FallbackMatches[1].case_title)
  /\ Contains(response.ret.response.text, FallbackMatches[2].case_title)

\* the model is missing, nothing matches, and the answer is the deflection
C12_DeflectionReached ==
  /\ ChatAnswered
  /\ ~model /\ genCalls = 0
  /\ FallbackMatches = << >>
  /\ response.ret.response.text = GenericBeforeQuery \o query \o GenericAfterQuery

-----------------------------------------------------------------------------
(* Properties of simple_text_search, checked under SpecLocal *)

Returned == s_pc = "returned"

\* the position of a case of the corpus (the cases of a corpus differ)
Position(case) == CHOOSE i \in 1..Len(s_cases) : s_cases[i] = case

\* C8: for a non-empty query and top_k >= 0, simple_text_search returns at
\* most top_k cases of the corpus, each with a score above 0, by descending
\* score, cases of equal score in corpus order; no case left out has a higher
\* score than a returned one.
C8_TopKRanked ==
  (Returned /\ s_query # << >>) =>
    /\ Len(s_result) <= s_top_k
    /\ \A i \in 1..Len(s_result) :
         /\ \E p \in 1..Len(s_cases) : s_cases[p] = s_result[i]
         /\ matches(s_query, s_result[i]) > 0
    /\ \A i \in 1..Len(s_result) : \A j \in (i + 1)..Len(s_result) :
         \/ matches(s_query, s_result[i]) > matches(s_query, s_result[j])
         \/ /\ matches(s_query, s_result[i]) = matches(s_query, s_result[j])
            /\ Position(s_result[i]) < Position(s_result[j])
    /\ \A p \in 1..Len(s_cases) :
         (\A i \in 1..Len(s_result) : s_result[i] # s_cases[p]) =>
           \A i \in 1..Len(s_result) :
             matches(s_query, s_cases[p]) <= matches(s_query, s_result[i])

\* two cases of equal score returned, a third case with a positive score left out
C8_Witness ==
  /\ Returned /\ s_query # << >>
  /\ Len(s_cases) = 3 /\ s_top_k = 2 /\ Len(s_result) = 2
  /\ matches(s_query, s_result[1]) = matches(s_query, s_result[2])
  /\ \E p \in 1..Len(s_cases) :
       /\ s_cases[p] # s_result[1] /\ s_cases[p] # s_result[2]
       /\ matches(s_query, s_cases[p]) > 0

\* C9: the empty query scores 0 against every case, so simple_text_search
\* with the empty query returns no case.
C9_EmptyQueryNoCases ==
  (Returned /\ s_query = << >>) =>
    /\ \A p \in 1..Len(s_cases) : matches(s_query, s_cases[p]) = 0
    /\ s_result = << >>

====
